---- MODULE Spec2Model ----
(***************************************************************************)
(* Resume Parser API (src/app.py, src/utility/ResumeParser.py).            *)
(*                                                                         *)
(* The handlers are `async def` functions without a single await, so each  *)
(* request runs to completion on the event loop: one action per handler.   *)
(* Strings whose characters matter (identifiers, extracted text) are       *)
(* sequences of characters; an ObjectId is the bytes it holds.              *)
(***************************************************************************)
EXTENDS Integers, Sequences, FiniteSets

VARIABLES
    parsed_collection,  \* the documents of the collection, in insertion order
    saved,              \* history: what each successful upload_and_save returned
    request,            \* the last request, with the environment it met
    response,           \* what the last request was answered with
    raised,             \* the exception the last handler raised, if any
    steps,              \* the calls the last upload_and_save made, in order
    produced            \* the text it extracted and the pairs the recognizer gave it

vars == <<parsed_collection, saved, request, response, raised, steps, produced>>

\* ---------------------------------------------------------------- bounds
\* Most documents the collection holds in the model.
MaxDocs == 2

\* ---------------------------------------------------------------- configuration
MAX_FILE_SIZE == 10 * 1024 * 1024

PDF_MIME == "application/pdf"

\* Python's None where a number is expected: an empty option.
None == <<>>

Some(n) == <<n>>

\* ---------------------------------------------------------------- text
Rep(c, n) == [i \in 1..n |-> c]

\* The characters str.strip() removes, those str.isspace() holds of. A character that
\* has no escape here is written as its code point.
AsciiWhitespace == {" ", "\t", "\n", "\r", "U+000B", "\f"}

Whitespace ==
    AsciiWhitespace \cup
    {"U+001C", "U+001D", "U+001E", "U+001F", "U+0085", "U+00A0", "U+1680",
     "U+2000", "U+2001", "U+2002", "U+2003", "U+2004", "U+2005", "U+2006",
     "U+2007", "U+2008", "U+2009", "U+200A", "U+2028", "U+2029", "U+202F",
     "U+205F", "U+3000"}

RECURSIVE lstrip(_)
lstrip(s) == IF s # <<>> /\ Head(s) \in Whitespace THEN lstrip(Tail(s)) ELSE s

RECURSIVE rstrip(_)
rstrip(s) ==
    IF s # <<>> /\ s[Len(s)] \in Whitespace THEN rstrip(SubSeq(s, 1, Len(s) - 1)) ELSE s

\* str.strip()
strip(s) == rstrip(lstrip(s))

\* ---------------------------------------------------------------- bson.ObjectId
OidBytes == 12

HexDigits == <<"0", "1", "2", "3", "4", "5", "6", "7", "8", "9", "a", "b", "c", "d", "e", "f">>

UpperHex == <<"A", "B", "C", "D", "E", "F">>

\* The value of each hexadecimal digit, either case.
HexTable ==
    [c \in {HexDigits[i] : i \in 1..16} \cup {UpperHex[i] : i \in 1..6} |->
        IF \E i \in 1..16 : HexDigits[i] = c
        THEN (CHOOSE i \in 1..16 : HexDigits[i] = c) - 1
        ELSE (CHOOSE i \in 1..6 : UpperHex[i] = c) + 9]

\* The value of one hexadecimal digit; -1 for any other character.
HexValue(c) == IF c \in DOMAIN HexTable THEN HexTable[c] ELSE -1

\* bytes.fromhex(s): pairs of hexadecimal digits, ASCII whitespace between pairs
\* skipped; anything else is a ValueError.
RECURSIVE fromhex(_)
fromhex(s) ==
    IF s = <<>> THEN [ok |-> TRUE, bytes |-> <<>>]
    ELSE IF Head(s) \in AsciiWhitespace THEN fromhex(Tail(s))
    ELSE IF Len(s) >= 2 /\ HexValue(s[1]) >= 0 /\ HexValue(s[2]) >= 0
    THEN LET rest == fromhex(SubSeq(s, 3, Len(s))) IN
         [ok |-> rest.ok, bytes |-> <<16 * HexValue(s[1]) + HexValue(s[2])>> \o rest.bytes]
    ELSE [ok |-> FALSE, bytes |-> <<>>]

\* ObjectId(s) of a string: the bytes bytes.fromhex reads from it when s has 24
\* characters, however many bytes that is; else InvalidId.
ObjectId(s) ==
    IF Len(s) # 2 * OidBytes THEN [valid |-> FALSE, binary |-> <<>>]
    ELSE LET parsed == fromhex(s) IN
         IF parsed.ok THEN [valid |-> TRUE, binary |-> parsed.bytes]
         ELSE [valid |-> FALSE, binary |-> <<>>]

\* str(oid): the lower-case hexadecimal digits of the bytes.
ObjectIdStr(b) ==
    [i \in 1..(2 * Len(b)) |->
        IF i % 2 = 1 THEN HexDigits[(b[(i + 1) \div 2] \div 16) + 1]
                     ELSE HexDigits[(b[i \div 2] % 16) + 1]]

\* The identifier the driver generates for the n-th document it is given.
NewObjectId(n) == [i \in 1..OidBytes |-> n]

\* ---------------------------------------------------------------- exceptions
NoException == [kind |-> "none", status_code |-> 0, detail |-> ""]

HTTPException(code, msg) == [kind |-> "HTTPException", status_code |-> code, detail |-> msg]

\* Any exception that is not an HTTPException.
Exception(name) == [kind |-> "Exception", status_code |-> 0, detail |-> name]

Raised(e) == e.kind # "none"

\* ---------------------------------------------------------------- validators

validate_file_size(file) ==
    IF file.size # None /\ file.size[1] # 0 /\ file.size[1] > MAX_FILE_SIZE
    THEN HTTPException(413, "File size exceeds maximum allowed size")
    ELSE NoException


validate_file_type(file) ==
    IF file.content_type # PDF_MIME
    THEN HTTPException(400, "Only PDF files are accepted")
    ELSE NoException

validate_user_id(userId) ==
    LET oid == ObjectId(userId) IN
    IF oid.valid
    THEN [exc |-> NoException, value |-> oid.binary]
    ELSE [exc |-> HTTPException(400, "Invalid userId format. Must be a valid ObjectId"),
          value |-> <<>>]

\* ---------------------------------------------------------------- text extraction
\* PyPDF2 on the uploaded bytes: the reader raises on a file that is no PDF; each page
\* yields its text, or nothing (None or ""), or raises.
RECURSIVE page_texts(_)
page_texts(pages) ==
    IF pages = <<>> THEN <<>>
    ELSE (IF Head(pages).extracts THEN Head(pages).text ELSE <<>>) \o page_texts(Tail(pages))

extract_text_from_pdf(pdf_file) ==
    IF ~pdf_file.pdf.readable
    THEN [exc |-> HTTPException(400, "Error reading PDF"), value |-> <<>>]
    ELSE IF Len(pdf_file.pdf.pages) = 0
    THEN [exc |-> HTTPException(400, "PDF file has no pages"), value |-> <<>>]
    ELSE [exc |-> NoException, value |-> strip(page_texts(pdf_file.pdf.pages))]

\* ---------------------------------------------------------------- ResumeParser
\* ResumeParser(): raises when the model directory is absent or spacy cannot load it.
ResumeParser_init(model_artifact) ==
    IF model_artifact = "missing" THEN Exception("FileNotFoundError")
    ELSE IF model_artifact = "unloadable" THEN Exception("OSError")
    ELSE NoException

\* parse_resume(text): the text as given and the (span text, label) pairs of doc.ents;
\* ner is what the pretrained pipeline does on this text.
parse_resume(text, ner) ==
    IF ner.raises
    THEN [exc |-> Exception("ValueError"), value |-> [parsed_text |-> <<>>, entities |-> <<>>]]
    ELSE [exc |-> NoException, value |-> [parsed_text |-> text, entities |-> ner.ents]]

NoResult == [parsed_text |-> <<>>, entities |-> <<>>]

\* Mutant: the check for empty text is gone.
parse_resume_text_unchecked(text, model_artifact, ner) ==
    LET parser == ResumeParser_init(model_artifact) IN
    IF Raised(parser)
    THEN [exc |-> parser, value |-> NoResult]
    ELSE LET result == parse_resume(text, ner) IN
         IF Raised(result.exc)
         THEN [exc |-> HTTPException(500, "Error parsing resume"), value |-> NoResult]
         ELSE result

parse_resume_text(text, model_artifact, ner) ==
    IF strip(text) = <<>>
    THEN [exc |-> HTTPException(400, "No text found in the PDF"), value |-> NoResult]
    ELSE LET parser == ResumeParser_init(model_artifact) IN
         IF Raised(parser)
         THEN [exc |-> parser, value |-> NoResult]
         ELSE LET result == parse_resume(text, ner) IN
              IF Raised(result.exc)
              THEN [exc |-> HTTPException(500, "Error parsing resume"), value |-> NoResult]
              ELSE result

\* ---------------------------------------------------------------- collection
\* An ObjectId in a document or a filter goes to the store as a BSON ObjectId, which
\* is twelve bytes. ObjectId(s) can hold fewer (see fromhex). What the driver does with
\* such a value is not in this repository: either the call fails (the encoder or the
\* server refuses it), or twelve bytes are written, the value's own and then the bytes
\* the encoder finds after them. Both are possible. No property here reads the bytes
\* that follow, and they are taken to be zero.
PadBytes == {0}

Refuses == [refuses |-> TRUE, pad |-> 0]

Pads(p) == [refuses |-> FALSE, pad |-> p]

Drivers == {Refuses} \cup {Pads(p) : p \in PadBytes}

\* The twelve bytes written for an ObjectId, or None when the call fails.
encode_objectid(binary, driver) ==
    IF Len(binary) = OidBytes THEN Some(binary)
    ELSE IF driver.refuses THEN None
    ELSE Some([i \in 1..OidBytes |-> IF i <= Len(binary) THEN binary[i] ELSE driver.pad])

\* Mutant: the document takes the place of the last one stored.
insert_one_replacing(collection, doc, driver) ==
    LET userId == encode_objectid(doc.userId, driver) IN
    IF userId = None THEN [exc |-> Exception("InvalidDocument"), collection |-> collection]
    ELSE IF collection = <<>>
    THEN [exc |-> NoException,
          collection |-> <<[doc EXCEPT !._id = NewObjectId(1), !.userId = userId[1]]>>]
    ELSE [exc |-> NoException,
          collection |->
              [collection EXCEPT ![Len(collection)] =
                  [doc EXCEPT !._id = NewObjectId(Len(collection)), !.userId = userId[1]]]]

\* insert_one: the driver gives the document a fresh _id and appends it as encoded;
\* nothing is stored when the call fails.
insert_one(collection, doc, driver) ==
    LET userId == encode_objectid(doc.userId, driver) IN
    IF userId = None THEN [exc |-> Exception("InvalidDocument"), collection |-> collection]
    ELSE [exc |-> NoException,
          collection |->
              Append(collection, [doc EXCEPT !._id = NewObjectId(Len(collection) + 1),
                                             !.userId = userId[1]])]

\* find_one({"_id": obj_id}): the first document with that _id as encoded, or none.
find_one(collection, obj_id, driver) ==
    LET wire == encode_objectid(obj_id, driver)
        hits == {k \in 1..Len(collection) : collection[k]._id = wire[1]} IN
    IF wire = None THEN [exc |-> Exception("InvalidDocument"), doc |-> <<>>]
    ELSE IF hits = {} THEN [exc |-> NoException, doc |-> <<>>]
    ELSE [exc |-> NoException,
          doc |-> <<collection[CHOOSE k \in hits : \A j \in hits : k <= j]>>]

\* find({"userId": user_obj_id}): the documents with that userId as encoded, in the
\* collection's order.
find(collection, user_obj_id, driver) ==
    LET wire == encode_objectid(user_obj_id, driver) IN
    IF wire = None THEN [exc |-> Exception("InvalidDocument"), docs |-> <<>>]
    ELSE [exc |-> NoException, docs |-> SelectSeq(collection, LAMBDA d : d.userId = wire[1])]

\* ---------------------------------------------------------------- response models
ParsedResumeOut(id, parsed_text, entities, userId) ==
    [id |-> id, parsed_text |-> parsed_text, entities |-> entities, userId |-> userId]

\* A handler's result: what it raised, or what it returned.
Return(body) == [exc |-> NoException, body |-> body]

Raise(e) == [exc |-> e, body |-> <<>>]

\* Both handlers return a plain dict.
http_exception_handler(exc) ==
    [type |-> "dict", detail |-> exc.detail, status_code |-> exc.status_code,
     error_code |-> "None"]

general_exception_handler(exc) ==
    [type |-> "dict", detail |-> "Internal server error", status_code |-> 500,
     error_code |-> "INTERNAL_ERROR"]

\* What a handler returns is called as an ASGI response; a dict is not callable.
Callable(returned) == returned.type = "Response"

Answer(returned) ==
    [detail |-> returned.detail, status_code |-> returned.status_code,
     error_code |-> returned.error_code, body |-> <<>>]

\* The application sent nothing and raised: the server's own bare 500.
ServerError == [detail |-> "", status_code |-> 500, error_code |-> "None", body |-> <<>>]

\* What the client is answered with: the returned body; or, for a raised exception,
\* what its handler returns, sent as a response. Sending a dict raises TypeError, which
\* goes to general_exception_handler, whose dict fails the same way.
Respond(result) ==
    IF result.exc.kind = "none"
    THEN [detail |-> "", status_code |-> 200, error_code |-> "None", body |-> result.body]
    ELSE LET first == IF result.exc.kind = "HTTPException"
                      THEN http_exception_handler(result.exc)
                      ELSE general_exception_handler(result.exc)
             second == general_exception_handler(Exception("TypeError")) IN
         IF Callable(first) THEN Answer(first)
         ELSE IF Callable(second) THEN Answer(second)
         ELSE ServerError

\* ---------------------------------------------------------------- upload_and_save
\* The label-less projection of the recognizer's pairs: ent[0] of each tuple.
entity_strings(entities) == [i \in 1..Len(entities) |-> entities[i][1]]

V_SIZE == "validate_file_size"
V_TYPE == "validate_file_type"
V_USER == "validate_user_id"
S_EXTRACT == "extract_text_from_pdf"
S_PARSE == "parse_resume_text"
S_INSERT == "insert_one"

\* What one call of the handler did: its result, the collection after it, the calls
\* it made, and what extraction and recognition handed it.
Outcome(result, collection, log, text, pairs) ==
    [result |-> result, collection |-> collection, steps |-> log,
     produced |-> [text |-> text, entities |-> pairs]]

\* Mutant: the userId is validated only when the document is put together.
upload_and_save_late_user_check(file, userId, collection, db_reachable, model_artifact, ner, driver) ==
    LET size_exc == validate_file_size(file) IN
    IF Raised(size_exc) THEN Outcome(Raise(size_exc), collection, <<V_SIZE>>, <<>>, <<>>) ELSE
    LET type_exc == validate_file_type(file) IN
    IF Raised(type_exc)
    THEN Outcome(Raise(type_exc), collection, <<V_SIZE, V_TYPE>>, <<>>, <<>>) ELSE
    LET pdf_text == extract_text_from_pdf(file) IN
    IF Raised(pdf_text.exc)
    THEN Outcome(Raise(pdf_text.exc), collection, <<V_SIZE, V_TYPE, S_EXTRACT>>, <<>>, <<>>) ELSE
    LET parsed == parse_resume_text(pdf_text.value, model_artifact, ner) IN
    IF Raised(parsed.exc)
    THEN Outcome(Raise(parsed.exc), collection, <<V_SIZE, V_TYPE, S_EXTRACT, S_PARSE>>,
                 pdf_text.value, <<>>) ELSE
    LET user_obj_id == validate_user_id(userId) IN
    IF Raised(user_obj_id.exc)
    THEN Outcome(Raise(user_obj_id.exc), collection,
                 <<V_SIZE, V_TYPE, S_EXTRACT, S_PARSE, V_USER>>, pdf_text.value,
                 parsed.value.entities) ELSE
    LET result == parsed.value
        entities == IF result.entities # <<>> THEN entity_strings(result.entities) ELSE <<>>
        doc == [_id |-> <<>>,
                parsed_text |-> result.parsed_text,
                entities |-> entities,
                userId |-> user_obj_id.value,
                created_at |-> None,
                file_name |-> file.filename,
                file_size |-> file.size,
                content_type |-> file.content_type]
        log == <<V_SIZE, V_TYPE, S_EXTRACT, S_PARSE, V_USER, S_INSERT>> IN
    IF ~db_reachable
    THEN Outcome(Raise(HTTPException(500, "Database error")), collection, log,
                 pdf_text.value, result.entities)
    ELSE LET insert_result == insert_one(collection, doc, driver)
             stored == insert_result.collection
             inserted_id == stored[Len(stored)]._id IN
         IF Raised(insert_result.exc)
         THEN Outcome(Raise(HTTPException(500, "Database error")), collection, log,
                      pdf_text.value, result.entities)
         ELSE Outcome(Return(<<ParsedResumeOut(ObjectIdStr(inserted_id), result.parsed_text,
                                               entities, userId)>>),
                      stored, log, pdf_text.value, result.entities)

upload_and_save(file, userId, collection, db_reachable, model_artifact, ner, driver) ==
    LET size_exc == validate_file_size(file) IN
    IF Raised(size_exc) THEN Outcome(Raise(size_exc), collection, <<V_SIZE>>, <<>>, <<>>) ELSE
    LET type_exc == validate_file_type(file) IN
    IF Raised(type_exc)
    THEN Outcome(Raise(type_exc), collection, <<V_SIZE, V_TYPE>>, <<>>, <<>>) ELSE
    LET user_obj_id == validate_user_id(userId) IN
    IF Raised(user_obj_id.exc)
    THEN Outcome(Raise(user_obj_id.exc), collection, <<V_SIZE, V_TYPE, V_USER>>, <<>>, <<>>) ELSE
    LET pdf_text == extract_text_from_pdf(file) IN
    IF Raised(pdf_text.exc)
    THEN Outcome(Raise(pdf_text.exc), collection, <<V_SIZE, V_TYPE, V_USER, S_EXTRACT>>,
                 <<>>, <<>>) ELSE
    LET parsed == parse_resume_text(pdf_text.value, model_artifact, ner) IN
    IF Raised(parsed.exc)
    THEN Outcome(Raise(parsed.exc), collection,
                 <<V_SIZE, V_TYPE, V_USER, S_EXTRACT, S_PARSE>>, pdf_text.value, <<>>) ELSE
    LET result == parsed.value
        entities == IF result.entities # <<>> THEN entity_strings(result.entities) ELSE <<>>
        doc == [_id |-> <<>>,
                parsed_text |-> result.parsed_text,
                entities |-> entities,
                userId |-> user_obj_id.value,
                created_at |-> None,
                file_name |-> file.filename,
                file_size |-> file.size,
                content_type |-> file.content_type]
        log == <<V_SIZE, V_TYPE, V_USER, S_EXTRACT, S_PARSE, S_INSERT>> IN
    IF ~db_reachable
    THEN Outcome(Raise(HTTPException(500, "Database error")), collection, log,
                 pdf_text.value, result.entities)
    ELSE LET insert_result == insert_one(collection, doc, driver)
             stored == insert_result.collection
             inserted_id == stored[Len(stored)]._id IN
         IF Raised(insert_result.exc)
         THEN Outcome(Raise(HTTPException(500, "Database error")), collection, log,
                      pdf_text.value, result.entities)
         ELSE Outcome(Return(<<ParsedResumeOut(ObjectIdStr(inserted_id), result.parsed_text,
                                               entities, userId)>>),
                      stored, log, pdf_text.value, result.entities)

\* ---------------------------------------------------------------- get_resume
DocOut(doc) ==
    ParsedResumeOut(ObjectIdStr(doc._id), doc.parsed_text, doc.entities, ObjectIdStr(doc.userId))


get_resume(resume_id, collection, db_reachable, driver) ==
    LET obj_id == ObjectId(resume_id) IN
    IF ~obj_id.valid THEN Raise(HTTPException(400, "Invalid resume ID format"))
    ELSE IF ~db_reachable THEN Raise(HTTPException(500, "Database error"))
    ELSE LET found == find_one(collection, obj_id.binary, driver) IN
         IF Raised(found.exc) THEN Raise(HTTPException(500, "Database error"))
         ELSE IF found.doc = <<>> THEN Raise(HTTPException(404, "Resume not found"))
         ELSE Return(<<DocOut(found.doc[1])>>)

\* ---------------------------------------------------------------- get_user_resumes
get_user_resumes(user_id, collection, db_reachable, driver) ==
    LET user_obj_id == validate_user_id(user_id) IN
    IF Raised(user_obj_id.exc) THEN Raise(user_obj_id.exc)
    ELSE IF ~db_reachable THEN Raise(HTTPException(500, "Database error"))
    ELSE LET cursor == find(collection, user_obj_id.value, driver) IN
         IF Raised(cursor.exc) THEN Raise(HTTPException(500, "Database error"))
         ELSE Return([i \in 1..Len(cursor.docs) |-> DocOut(cursor.docs[i])])

\* ---------------------------------------------------------------- health, root
health_check(db_reachable) ==
    LET database_connected == db_reachable IN
    Return(<<[status |-> IF database_connected THEN "healthy" ELSE "degraded",
              database_connected |-> database_connected]>>)

root == Return(<<[message |-> "Resume Parser API", version |-> "1.0.0", docs |-> "/docs"]>>)

\* ---------------------------------------------------------------- requests
ContentTypes == {PDF_MIME, "text/plain"}

Sizes == {None, Some(MAX_FILE_SIZE), Some(MAX_FILE_SIZE + 1)}

Page(text) == [extracts |-> TRUE, text |-> text]

\* A page whose extract_text() raises.
BadPage == [extracts |-> FALSE, text |-> <<>>]

NotAPdf == [readable |-> FALSE, pages |-> <<>>]

EmptyPdf == [readable |-> TRUE, pages |-> <<>>]

ScannedPdf == [readable |-> TRUE, pages |-> <<BadPage, Page(<<" ", "\t">>), Page(<<>>)>>]

\* Nothing but white space that is not ASCII.
BlankPdf == [readable |-> TRUE, pages |-> <<Page(<<"U+00A0", "\r">>)>>]

\* Two pages of text around one that cannot be extracted.
TextPdf == [readable |-> TRUE, pages |-> <<Page(<<"\t", "a">>), BadPage, Page(<<"b", "\f">>)>>]

Pdfs == {NotAPdf, EmptyPdf, ScannedPdf, BlankPdf, TextPdf}

Files ==
    {[filename |-> "cv.pdf", content_type |-> t, size |-> z, pdf |-> p] :
        t \in ContentTypes, z \in Sizes, p \in Pdfs}

UpperId == Rep("A", 2 * OidBytes)

LowerId == Rep("a", 2 * OidBytes)

OtherId == Rep("b", 2 * OidBytes)

ShortId == Rep("a", 2 * OidBytes - 1)

NotHexId == Rep("g", 2 * OidBytes)

\* 24 characters of which the last two are spaces.
SpacedId == Rep("a", 2 * OidBytes - 2) \o <<" ", " ">>

UploadUserIds == {UpperId, SpacedId, NotHexId}

QueryUserIds == {UpperId, LowerId, OtherId, SpacedId, ShortId, NotHexId}

ResumeIds ==
    {ObjectIdStr(NewObjectId(n)) : n \in 1..(MaxDocs + 1)}
        \cup {UpperId, SpacedId, ShortId, NotHexId}

\* What the recognizer finds: (span text, label) pairs in document order.
SomeEntities == <<<<"Ann", "NAME">>, <<"SQL", "SKILL">>, <<"Ann", "NAME">>, <<"Go", "SKILL">>>>

Found(ents) == [raises |-> FALSE, ents |-> ents]

Fails == [raises |-> TRUE, ents |-> <<>>]

\* The environment a request meets: whether the store answers, the state of the model
\* directory, what the pipeline does on the text, what the driver does with a short
\* ObjectId. One fault at a time, and two at once.
Env(db, model, ner, driver) ==
    [db_reachable |-> db, model_artifact |-> model, ner |-> ner, driver |-> driver]

Environments ==
    {Env(TRUE, "present", Found(SomeEntities), d) : d \in Drivers} \cup
    {Env(TRUE, "present", Fails, Pads(0)),
     Env(TRUE, "missing", Found(SomeEntities), Pads(0)),
     Env(TRUE, "unloadable", Found(SomeEntities), Pads(0)),
     Env(FALSE, "present", Found(SomeEntities), Pads(0)),
     Env(FALSE, "missing", Found(SomeEntities), Pads(0))}

\* The environment of a lookup.
LookupEnvs ==
    {[db_reachable |-> TRUE, driver |-> d] : d \in Drivers} \cup
    {[db_reachable |-> FALSE, driver |-> Pads(0)]}

\* The part of a request, and of the environment it met, that the properties read.
Request(op, id, content_type, size, db_reachable, model_artifact) ==
    [op |-> op, id |-> id, content_type |-> content_type, size |-> size,
     db_reachable |-> db_reachable, model_artifact |-> model_artifact]

Lookup(op, id, db_reachable) == Request(op, id, "", None, db_reachable, "present")

NothingProduced == [text |-> <<>>, entities |-> <<>>]

\* ---------------------------------------------------------------- the service
\* After startup: connected, the collection as found (empty here), nothing asked yet.
Init ==
    /\ parsed_collection = <<>>
    /\ saved = <<>>
    /\ request = Lookup("none", <<>>, TRUE)
    /\ response = Respond(Return(<<>>))
    /\ raised = NoException
    /\ steps = <<>>
    /\ produced = NothingProduced

UploadAndSave(file, userId, env) ==
    /\ Len(parsed_collection) < MaxDocs
    /\ \E out \in {upload_and_save(file, userId, parsed_collection, env.db_reachable,
                                    env.model_artifact, env.ner, env.driver)} :
          /\ parsed_collection' = out.collection
          /\ response' = Respond(out.result)
          /\ raised' = out.result.exc
          /\ steps' = out.steps
          /\ produced' = out.produced
          /\ saved' = IF Raised(out.result.exc) THEN saved
                      ELSE Append(saved, out.result.body[1])
    /\ request' = Request("upload_and_save", userId, file.content_type, file.size,
                          env.db_reachable, env.model_artifact)

GetResume(resume_id, env) ==
    /\ \E result \in {get_resume(resume_id, parsed_collection, env.db_reachable, env.driver)} :
          response' = Respond(result) /\ raised' = result.exc
    /\ request' = Lookup("get_resume", resume_id, env.db_reachable)
    /\ steps' = <<>>
    /\ produced' = NothingProduced
    /\ UNCHANGED <<parsed_collection, saved>>

GetUserResumes(user_id, env) ==
    /\ \E result \in {get_user_resumes(user_id, parsed_collection, env.db_reachable,
                                         env.driver)} :
          response' = Respond(result) /\ raised' = result.exc
    /\ request' = Lookup("get_user_resumes", user_id, env.db_reachable)
    /\ steps' = <<>>
    /\ produced' = NothingProduced
    /\ UNCHANGED <<parsed_collection, saved>>

HealthCheck(db_reachable) ==
    /\ \E result \in {health_check(db_reachable)} :
          response' = Respond(result) /\ raised' = result.exc
    /\ request' = Lookup("health_check", <<>>, db_reachable)
    /\ steps' = <<>>
    /\ produced' = NothingProduced
    /\ UNCHANGED <<parsed_collection, saved>>

Root ==
    /\ \E result \in {root} :
          response' = Respond(result) /\ raised' = result.exc
    /\ request' = Lookup("root", <<>>, TRUE)
    /\ steps' = <<>>
    /\ produced' = NothingProduced
    /\ UNCHANGED <<parsed_collection, saved>>

Next ==
    \/ \E file \in Files, userId \in UploadUserIds, env \in Environments :
          UploadAndSave(file, userId, env)
    \/ \E resume_id \in ResumeIds, env \in LookupEnvs : GetResume(resume_id, env)
    \/ \E user_id \in QueryUserIds, env \in LookupEnvs : GetUserResumes(user_id, env)
    \/ \E db_reachable \in BOOLEAN : HealthCheck(db_reachable)
    \/ Root

Spec == Init /\ [][Next]_vars

\* ================================================================ properties
IsUpload == request.op = "upload_and_save"

Oversize(size) == size # None /\ size[1] > MAX_FILE_SIZE

\* A well-formed object identifier: 24 hexadecimal digits.
HexChars ==
    {"0", "1", "2", "3", "4", "5", "6", "7", "8", "9",
     "a", "b", "c", "d", "e", "f", "A", "B", "C", "D", "E", "F"}

WellFormedId(s) == Len(s) = 24 /\ \A i \in 1..Len(s) : s[i] \in HexChars

\* The documents whose _id reads as the string id.
DocsWithId(id) ==
    {k \in 1..Len(parsed_collection) : ObjectIdStr(parsed_collection[k]._id) = id}

NoInsert == \A i \in 1..Len(steps) : steps[i] # S_INSERT

\* C1: a get_resume of an id that an earlier upload_and_save returned, answered by the
\* store, succeeds with the record that upload returned: same id, parsed_text, entities,
\* and the userId string as it was submitted.
C1_RoundTrip ==
    \A k \in 1..Len(saved) :
        (request.op = "get_resume" /\ request.db_reachable /\ request.id = saved[k].id)
            => (response.status_code = 200 /\ response.body = <<saved[k]>>)

\* Twelve bytes: the ObjectId the string id names is stored and sought as it is.
FullId(id) == ObjectId(id).valid /\ Len(ObjectId(id).binary) = OidBytes

\* The same round trip without the userId string: id, text and entities come back as
\* returned, and the userId names the same ObjectId when that has twelve bytes.
RoundTripOfTextAndEntities ==
    \A k \in 1..Len(saved) :
        (request.op = "get_resume" /\ request.db_reachable /\ request.id = saved[k].id)
            => /\ response.status_code = 200
               /\ Len(response.body) = 1
               /\ response.body[1].id = saved[k].id
               /\ response.body[1].parsed_text = saved[k].parsed_text
               /\ response.body[1].entities = saved[k].entities
               /\ FullId(saved[k].userId)
                     => response.body[1].userId = ObjectIdStr(ObjectId(saved[k].userId).binary)

\* C2: every stored document has text that is not empty once trimmed, and a userId
\* that is a well-formed object identifier: twelve bytes. No blank text and no
\* ObjectId of another length is ever in the collection.
C2_StoredRecordsValid ==
    \A k \in 1..Len(parsed_collection) :
        /\ \E i \in 1..Len(parsed_collection[k].parsed_text) :
              parsed_collection[k].parsed_text[i] \notin Whitespace
        /\ Len(parsed_collection[k].userId) = 12
        /\ \A i \in 1..Len(parsed_collection[k].userId) :
              parsed_collection[k].userId[i] \in 0..255

\* A record stored for a userId string of 24 characters that are not all hexadecimal
\* digits: its text trimmed of the white space around it, its userId twelve bytes.
C2_Witness ==
    /\ IsUpload
    /\ request.id = SpacedId
    /\ response.status_code = 200
    /\ Len(parsed_collection) = 2
    /\ parsed_collection[2].parsed_text = <<"a", "b">>
    /\ Len(parsed_collection[2].userId) = OidBytes
    /\ parsed_collection[2].userId # parsed_collection[1].userId

\* C3: an upload whose declared size exceeds MAX_FILE_SIZE is answered 413, whatever
\* else it carries, and nothing is inserted.
C3_OversizeIs413 ==
    (IsUpload /\ Oversize(request.size)) => (response.status_code = 413 /\ NoInsert)

\* What the handler does raise there: HTTPException 413, ahead of everything else.
OversizeRaises413 ==
    (IsUpload /\ Oversize(request.size))
        => (raised.kind = "HTTPException" /\ raised.status_code = 413 /\ steps = <<V_SIZE>>)

\* C4: an upload whose content type is not application/pdf is answered 400, whatever
\* its content, its size and its userId.
C4_NonPdfIs400 ==
    (IsUpload /\ request.content_type # "application/pdf") => response.status_code = 400

\* What the handler does raise there: 400, unless the size check, which comes first,
\* raised 413.
NonPdfRaises400UnlessOversize ==
    (IsUpload /\ request.content_type # "application/pdf")
        => /\ raised.kind = "HTTPException"
           /\ raised.status_code = IF Oversize(request.size) THEN 413 ELSE 400
           /\ NoInsert

\* The label of each (span text, label) pair, in order.
Labels(pairs) == [i \in 1..Len(pairs) |-> pairs[i][2]]

\* C5: the entities a successful upload returns and stores are the labels of the
\* recognizer's pairs, in its order, duplicates kept.
C5_EntitiesAreLabels ==
    (IsUpload /\ response.status_code = 200)
        => /\ response.body[1].entities = Labels(produced.entities)
           /\ parsed_collection[Len(parsed_collection)].entities = Labels(produced.entities)

\* C6: with the model directory missing or unloadable (and the store answering), an
\* upload that passed the validators and yielded text is answered 503, and no insert
\* was made.
C6_ModelUnavailableIs503 ==
    (/\ IsUpload
     /\ request.model_artifact # "present"
     /\ request.db_reachable
     /\ produced.text # <<>>)
        => (response.status_code = 503 /\ NoInsert)

\* One of the three validators raises on the last request.
SomeValidatorFails ==
    LET file == [size |-> request.size, content_type |-> request.content_type] IN
    \/ Raised(validate_file_size(file))
    \/ Raised(validate_file_type(file))
    \/ Raised(validate_user_id(request.id).exc)

Work == {S_EXTRACT, S_PARSE, S_INSERT}

\* C7: in an upload the three validators run before any extraction, recognition or
\* insert, and when one of them fails none of those is run.
C7_ValidatorsFirst ==
    IsUpload =>
        /\ \A i \in 1..Len(steps) :
              steps[i] \in Work
                  => \A v \in {V_SIZE, V_TYPE, V_USER} : \E j \in 1..(i - 1) : steps[j] = v
        /\ SomeValidatorFails => \A i \in 1..Len(steps) : steps[i] \notin Work

\* Size and type pass and the userId does not, while a record is stored.
C7_Witness ==
    /\ IsUpload
    /\ ~Oversize(request.size)
    /\ request.content_type = PDF_MIME
    /\ request.id = NotHexId
    /\ steps = <<V_SIZE, V_TYPE, V_USER>>
    /\ raised.status_code = 400
    /\ Len(parsed_collection) = 1

\* C8: a stored record is never removed or changed; the lookups and the health check
\* leave the collection as it is; a successful upload adds exactly one record.
C8_StoredRecordsImmutable ==
    [][/\ Len(parsed_collection') >= Len(parsed_collection)
       /\ \A k \in 1..Len(parsed_collection) : parsed_collection'[k] = parsed_collection[k]
       /\ request'.op \in {"get_resume", "get_user_resumes", "health_check", "root"}
             => parsed_collection' = parsed_collection
       /\ (request'.op = "upload_and_save" /\ response'.status_code = 200)
             => Len(parsed_collection') = Len(parsed_collection) + 1]_vars

\* A second record was added beside the first.
C8_Witness ==
    /\ IsUpload
    /\ response.status_code = 200
    /\ Len(parsed_collection) = 2
    /\ parsed_collection[1]._id # parsed_collection[2]._id

\* C9: get_resume answers 400 to a malformed id; 404, when the store answers, to a
\* well-formed id that no record has; and a record only if a stored record has the id.
C9_GetResumeStatus ==
    request.op = "get_resume" =>
        /\ ~WellFormedId(request.id) => response.status_code = 400
        /\ (WellFormedId(request.id) /\ request.db_reachable /\ DocsWithId(request.id) = {})
              => response.status_code = 404
        /\ response.body # <<>>
              => \E k \in DocsWithId(request.id) :
                    response.body = <<ParsedResumeOut(request.id,
                                                      parsed_collection[k].parsed_text,
                                                      parsed_collection[k].entities,
                                                      ObjectIdStr(parsed_collection[k].userId))>>

\* What get_resume does do: it raises 400 on what ObjectId refuses and 404, when the
\* store answers, on a twelve-byte id no record has; it returns a record only if one
\* has the id.
GetResumeRaises ==
    request.op = "get_resume" =>
        /\ ~ObjectId(request.id).valid => raised.status_code = 400
        /\ (FullId(request.id) /\ request.db_reachable /\ DocsWithId(request.id) = {})
              => raised.status_code = 404
        /\ response.body # <<>>
              => /\ response.status_code = 200
                 /\ \E k \in DocsWithId(request.id) :
                       response.body[1].parsed_text = parsed_collection[k].parsed_text

\* The successful uploads made for the user that the string id names.
SavedFor(id) ==
    {k \in 1..Len(saved) : ObjectId(saved[k].userId).binary = ObjectId(id).binary}

\* The user's records, one entry each, none of another user.
ExactlyTheUsersRecords ==
    /\ response.status_code = 200
    /\ Len(response.body) = Cardinality(SavedFor(request.id))
    /\ \A k \in SavedFor(request.id) :
          \E j \in 1..Len(response.body) :
              /\ response.body[j].id = saved[k].id
              /\ response.body[j].parsed_text = saved[k].parsed_text
              /\ response.body[j].entities = saved[k].entities
    /\ \A j \in 1..Len(response.body) :
          /\ response.body[j].userId = ObjectIdStr(ObjectId(request.id).binary)
          /\ \E k \in SavedFor(request.id) : response.body[j].id = saved[k].id
    /\ \A i, j \in 1..Len(response.body) :
          response.body[i].id = response.body[j].id => i = j

\* C10: get_user_resumes answers 400 to a malformed userId; to a well-formed one, when
\* the store answers, exactly the records the successful uploads stored for that user,
\* one entry each, none of another user, and the empty sequence if there are none.
C10_UserResumes ==
    request.op = "get_user_resumes" =>
        /\ ~WellFormedId(request.id) => response.status_code = 400
        /\ (WellFormedId(request.id) /\ request.db_reachable) => ExactlyTheUsersRecords

\* What get_user_resumes does do: the records part holds for every twelve-byte id,
\* and what ObjectId refuses raises 400.
UserResumesOfAcceptedIds ==
    request.op = "get_user_resumes" =>
        /\ ~ObjectId(request.id).valid => raised.status_code = 400
        /\ (FullId(request.id) /\ request.db_reachable) => ExactlyTheUsersRecords
====
